---- MODULE Spec2Model ----
(***************************************************************************)
(* Model of three scripts of the repository, each under a specification   *)
(* of its own: Spec (time_sheet.py), SpecTodo (todo.py: the paragraph scan *)
(* of main) and SpecNotes (download_meetings.py: _maybe_create_file).      *)
(*                                                                         *)
(* time_sheet.py: the journal scan that pairs start-tagged and             *)
(* end-tagged timestamp lines into Interval objects                        *)
(* (_parse_timestamp_line, Interval.validate, Interval.__str__ and         *)
(* _parse_intervals_from_journal).                                         *)
(*                                                                         *)
(* A journal line is a record of what line.split(" ") exposes to the       *)
(* parser:                                                                 *)
(*   marker : whether the line starts with "# "                            *)
(*   when   : the outcome of dateutil.parser.parse on tokens [1:3];        *)
(*            0 stands for "raises ValueError", t >= 1 for the point in    *)
(*            time t                                                       *)
(*   rest   : the raw tokens [3:], each a sequence of characters           *)
(* Interval objects live in a heap and are referred to by their index, so  *)
(* that aliasing between active_interval and the result list is explicit.  *)
(***************************************************************************)
EXTENDS Integers, Sequences, FiniteSets, TLC

\* Longest journal that is scanned.
MaxLines == 4
\* Points in time that a timestamp line can carry are 1..MaxTime.
MaxTime == 2

\* Longest note file that the TODO scan reads.
MaxNoteLines == 4
\* Calls of _maybe_create_file in one behaviour; the clock reads 1..MaxCalls.
MaxCalls == 3

\* Python's None, for a reference and for a point in time.
None == 0

VARIABLES
    lines,            \* argument: the journal, a sequence of lines
    start_tag,        \* argument
    end_tag,          \* argument
    num,              \* 0-based index of the line the for loop is at
    heap,             \* the Interval objects created so far
    active_interval,  \* None or a reference into heap
    intervals,        \* the local result list: references into heap
    pc,               \* "scan", "returned" or "raised"
    returned,         \* the value handed to the caller, NotReturned before
    error,            \* the exception that left the function, or NoError
    extent,           \* history: per heap object, the 1-based numbers of
                      \* the lines that opened and sealed it
    \* todo.py, main, the scan of one note file
    note,             \* f.readlines(), as far as the loop has read
    todo_lines,       \* the local list lines
    paragraphs,       \* the local list paragraphs
    active_todo,      \* the local flag
    todo_pc,          \* "scan" in the loop, "done" after the last paragraph
    \* download_meetings.py, _maybe_create_file
    dirs,             \* per meeting id, what <notes_dir>/<meeting_id> is
    files,            \* per meeting id and date, the content of the note
    now,              \* what datetime.now() reads at the next call
    call,             \* the arguments of the latest call
    printed           \* what the latest call printed, or how it failed

scanVars == <<lines, start_tag, end_tag, num, heap, active_interval, intervals,
              pc, returned, error, extent>>
todoVars == <<note, todo_lines, paragraphs, active_todo, todo_pc>>
notesVars == <<dirs, files, now, call, printed>>

vars == <<scanVars, todoVars, notesVars>>

-----------------------------------------------------------------------------
\* Characters, tokens and lines

Whitespace == {"\n", "\t"}

RECURSIVE LStrip(_)
LStrip(tok) ==
    IF tok # <<>> /\ Head(tok) \in Whitespace THEN LStrip(Tail(tok)) ELSE tok

RECURSIVE RStrip(_)
RStrip(tok) ==
    IF tok # <<>> /\ tok[Len(tok)] \in Whitespace
    THEN RStrip(SubSeq(tok, 1, Len(tok) - 1))
    ELSE tok

\* str.strip()
Strip(tok) == RStrip(LStrip(tok))

\* [f(x) for x in s]
RECURSIVE MapStrip(_)
MapStrip(s) ==
    IF s = <<>> THEN <<>> ELSE <<Strip(Head(s))>> \o MapStrip(Tail(s))

\* x in s, for a list s
Contains(s, x) == \E i \in 1..Len(s) : s[i] = x

TagS == <<"s">>
TagE == <<"e">>

\* Raw tag tokens as they stand in a line read by readlines().
RawS == <<"s">>
RawSn == <<"s", "\n">>
RawEn == <<"e", "\n">>
RawX == <<"x">>
RawXn == <<"x", "\n">>

TagLists == {<<RawXn>>, <<RawSn>>, <<RawEn>>, <<RawS, RawEn>>, <<RawX, RawEn>>}

NoteLine == [marker |-> FALSE, when |-> 0, rest |-> <<>>]
UnmarkedLine == [marker |-> FALSE, when |-> 1, rest |-> <<RawEn>>]
BadDateLine == [marker |-> TRUE, when |-> 0, rest |-> <<RawEn>>]
StampLines == [marker : {TRUE}, when : 1..MaxTime, rest : TagLists]

JournalLines == {NoteLine, UnmarkedLine, BadDateLine} \cup StampLines

-----------------------------------------------------------------------------
\* _parse_timestamp_line

NoMatch == [matched |-> FALSE, time |-> None, tags |-> <<>>]

_parse_timestamp_line(line) ==
    IF ~line.marker THEN NoMatch
    ELSE IF line.when = 0 THEN NoMatch
    ELSE [matched |-> TRUE, time |-> line.when, tags |-> MapStrip(line.rest)]

-----------------------------------------------------------------------------
\* class Interval

\* Interval.__init__
NewInterval == [start |-> None, end |-> None, lines |-> <<>>]

\* Interval.hours, in units of one step of model time
hours(iv) == iv.end - iv.start

\* Interval.__str__: the hours, start, end and the lines strictly between
\* the first and the last one
IntervalStr(iv) ==
    [hours |-> hours(iv), start |-> iv.start, end |-> iv.end,
     summary |-> SubSeq(iv.lines, 2, Len(iv.lines) - 1)]

NoIntervalStr == [hours |-> 0, start |-> None, end |-> None, summary |-> <<>>]

\* validate without the comparison
validate_NoCheck(iv) == FALSE

\* Interval.validate raises (TRUE) or returns normally (FALSE); start and end
\* are set, and points in time are truthy, so neither assert fails

validate(iv) == iv.end < iv.start

-----------------------------------------------------------------------------
\* Exceptions: the class, the message template and the values formatted
\* into it (num = None and line = NoLine when the template has no such
\* field, interval = NoIntervalStr when it does not print an interval).

NoLine == [marker |-> FALSE, when |-> 0, rest |-> <<<<"-">>>>]

NoError == [type |-> "none", msg |-> "", num |-> None, line |-> NoLine,
            interval |-> NoIntervalStr]

MsgUnmatchedEnd == "Ending interval without starting it (line {}): {}"
MsgNested == "Starting interval when already open (line {}): {}"
MsgUnterminated == "EOF reached. Interval not terminated."
MsgNegative == "Negative duration for interval:\n{}"

\* the 0-based index, without the + 1
UnmatchedEndError_OffByOne(n, line) ==
    [type |-> "ValueError", msg |-> MsgUnmatchedEnd, num |-> n, line |-> line,
     interval |-> NoIntervalStr]

UnmatchedEndError(n, line) ==
    [type |-> "ValueError", msg |-> MsgUnmatchedEnd, num |-> n + 1, line |-> line,
     interval |-> NoIntervalStr]

\* the 0-based index, without the + 1
NestedError_ZeroBased(n, line) ==
    [type |-> "ValueError", msg |-> MsgNested, num |-> n, line |-> line,
     interval |-> NoIntervalStr]

NestedError(n, line) ==
    [type |-> "ValueError", msg |-> MsgNested, num |-> n + 1, line |-> line,
     interval |-> NoIntervalStr]

UnterminatedError ==
    [type |-> "ValueError", msg |-> MsgUnterminated, num |-> None, line |-> NoLine,
     interval |-> NoIntervalStr]

NegativeError(iv) ==
    [type |-> "ValueError", msg |-> MsgNegative, num |-> None, line |-> NoLine,
     interval |-> IntervalStr(iv)]

-----------------------------------------------------------------------------
\* _parse_intervals_from_journal

NotReturned == <<"not returned">>

\* The state of the two other scripts while they are not run.
MeetingIds == {"standup", "retro"}
Dates == {1, 2}
\* A path holds no file (Absent) or a file with one content: <<content>>.
Absent == <<>>
NoCall == [meeting_id |-> "", date |-> 0]

TodoIdle ==
    /\ note = <<>>
    /\ todo_lines = <<>>
    /\ paragraphs = <<>>
    /\ active_todo = FALSE
    /\ todo_pc = "idle"

NotesIdle ==
    /\ dirs = [m \in MeetingIds |-> "missing"]
    /\ files = [m \in MeetingIds |-> [d \in Dates |-> Absent]]
    /\ now = 1
    /\ call = NoCall
    /\ printed = ""

\* The scan never looks ahead of the line it is at, so the journal is
\* disclosed as it is read: lines holds the lines the for loop has been
\* handed so far, and each loop step draws the line at index num.
Init ==
    /\ TodoIdle
    /\ NotesIdle
    /\ lines = <<>>
    /\ start_tag = TagS
    /\ end_tag \in {TagS, TagE}
    /\ num = 0
    /\ heap = <<>>
    /\ active_interval = None
    /\ intervals = <<>>
    /\ pc = "scan"
    /\ returned = NotReturned
    /\ error = NoError
    /\ extent = <<>>

\* for num, line in enumerate(lines): the loop hands out one more line
Read(line) ==
    /\ pc = "scan"
    /\ num = Len(lines)
    /\ Len(lines) < MaxLines
    /\ lines' = Append(lines, line)
    /\ UNCHANGED <<todoVars, notesVars>>

\* the loop is exhausted at this point of the journal
Exhausted ==
    /\ pc = "scan"
    /\ num = Len(lines)
    /\ UNCHANGED <<lines, todoVars, notesVars>>

\* the two checks in the other order
ClosedBranch_StartFirst(p) ==
    IF Contains(p.tags, start_tag) THEN "open"
    ELSE IF Contains(p.tags, end_tag) THEN "unmatched"
    ELSE "skip"

\* without the end_tag check: a stray end-tag line is passed over
ClosedBranch_IgnoreEnd(p) ==
    IF Contains(p.tags, start_tag) THEN "open" ELSE "skip"

\* The branch taken for a timestamp line while no interval is open.
ClosedBranch(p) ==
    IF Contains(p.tags, end_tag) THEN "unmatched"
    ELSE IF Contains(p.tags, start_tag) THEN "open"
    ELSE "skip"

\* the two checks in the other order
OpenBranch_EndFirst(p) ==
    IF Contains(p.tags, end_tag) THEN "seal"
    ELSE IF Contains(p.tags, start_tag) THEN "nested"
    ELSE "body"

\* The branch taken for a timestamp line while an interval is open.
OpenBranch(p) ==
    IF Contains(p.tags, start_tag) THEN "nested"
    ELSE IF Contains(p.tags, end_tag) THEN "seal"
    ELSE "body"

\* active_interval.lines.append(line)
AppendLine(h, ref, l) ==
    [h EXCEPT ![ref].lines = Append(@, l)]

\* The heap once the line is appended and the end time recorded.
Sealed(h, ref, l, t) ==
    [AppendLine(h, ref, l) EXCEPT ![ref].end = t]

\* return intervals where the code raises
Raise_ReturnsPartial(e) ==
    /\ pc' = "returned"
    /\ returned' = intervals
    /\ UNCHANGED <<error, num>>

\* raise ValueError(...): the exception leaves the function, nothing is
\* returned
Raise(e) ==
    /\ pc' = "raised"
    /\ error' = e
    /\ UNCHANGED <<returned, num>>

Continue ==
    /\ num' = num + 1
    /\ UNCHANGED <<pc, returned, error>>

\* not active_interval, not parsed: continue
SkipLine ==
    \E line \in JournalLines :
        /\ Read(line)
        /\ active_interval = None
        /\ ~_parse_timestamp_line(line).matched
        /\ Continue
        /\ UNCHANGED <<start_tag, end_tag, heap, active_interval, intervals, extent>>

\* not active_interval, parsed, end_tag in tags: raise
UnmatchedEnd ==
    \E line \in JournalLines :
        LET parsed == _parse_timestamp_line(line) IN
        /\ Read(line)
        /\ active_interval = None
        /\ parsed.matched
        /\ ClosedBranch(parsed) = "unmatched"
        /\ Raise(UnmatchedEndError(num, line))
        /\ UNCHANGED <<start_tag, end_tag, heap, active_interval, intervals, extent>>

\* not active_interval, parsed, start_tag in tags: open an interval
OpenInterval ==
    \E line \in JournalLines :
        LET parsed == _parse_timestamp_line(line) IN
        /\ Read(line)
        /\ active_interval = None
        /\ parsed.matched
        /\ ClosedBranch(parsed) = "open"
        /\ heap' = Append(heap, [NewInterval EXCEPT !.start = parsed.time,
                                                     !.lines = Append(@, line)])
        /\ active_interval' = Len(heap) + 1
        /\ extent' = Append(extent, [first |-> num + 1, last |-> None])
        /\ Continue
        /\ UNCHANGED <<start_tag, end_tag, intervals>>

\* not active_interval, parsed, neither tag: fall through
IgnoreStamp ==
    \E line \in JournalLines :
        LET parsed == _parse_timestamp_line(line) IN
        /\ Read(line)
        /\ active_interval = None
        /\ parsed.matched
        /\ ClosedBranch(parsed) = "skip"
        /\ Continue
        /\ UNCHANGED <<start_tag, end_tag, heap, active_interval, intervals, extent>>

\* continue, as in the branch with no interval open
AppendBody_Drop ==
    \E line \in JournalLines :
        /\ Read(line)
        /\ active_interval # None
        /\ ~_parse_timestamp_line(line).matched
        /\ Continue
        /\ UNCHANGED <<start_tag, end_tag, heap, active_interval, intervals, extent>>

\* active_interval, not parsed: append the line
AppendBody ==
    \E line \in JournalLines :
        /\ Read(line)
        /\ active_interval # None
        /\ ~_parse_timestamp_line(line).matched
        /\ heap' = AppendLine(heap, active_interval, line)
        /\ Continue
        /\ UNCHANGED <<start_tag, end_tag, active_interval, intervals, extent>>

\* active_interval, parsed, neither tag: append the line
AppendStamp ==
    \E line \in JournalLines :
        LET parsed == _parse_timestamp_line(line) IN
        /\ Read(line)
        /\ active_interval # None
        /\ parsed.matched
        /\ OpenBranch(parsed) = "body"
        /\ heap' = AppendLine(heap, active_interval, line)
        /\ Continue
        /\ UNCHANGED <<start_tag, end_tag, active_interval, intervals, extent>>

\* a start-tag line met while open starts a fresh interval
NestedStart_Reopen ==
    \E line \in JournalLines :
        LET parsed == _parse_timestamp_line(line) IN
        /\ Read(line)
        /\ active_interval # None
        /\ parsed.matched
        /\ OpenBranch(parsed) = "nested"
        /\ heap' = Append(AppendLine(heap, active_interval, line),
                          [NewInterval EXCEPT !.start = parsed.time,
                                              !.lines = Append(@, line)])
        /\ active_interval' = Len(heap) + 1
        /\ extent' = Append(extent, [first |-> num + 1, last |-> None])
        /\ Continue
        /\ UNCHANGED <<start_tag, end_tag, intervals>>

\* active_interval, parsed, start_tag in tags: append the line, raise
NestedStart ==
    \E line \in JournalLines :
        LET parsed == _parse_timestamp_line(line) IN
        /\ Read(line)
        /\ active_interval # None
        /\ parsed.matched
        /\ OpenBranch(parsed) = "nested"
        /\ heap' = AppendLine(heap, active_interval, line)
        /\ Raise(NestedError(num, line))
        /\ UNCHANGED <<start_tag, end_tag, active_interval, intervals, extent>>

\* active_interval, parsed, end_tag in tags, validate raises
NegativeDuration ==
    \E line \in JournalLines :
        LET parsed == _parse_timestamp_line(line) IN
        /\ Read(line)
        /\ active_interval # None
        /\ parsed.matched
        /\ OpenBranch(parsed) = "seal"
        /\ heap' = Sealed(heap, active_interval, line, parsed.time)
        /\ validate(heap'[active_interval])
        /\ Raise(NegativeError(heap'[active_interval]))
        /\ UNCHANGED <<start_tag, end_tag, active_interval, intervals, extent>>

\* intervals.insert(0, active_interval)
SealInterval_Prepend ==
    \E line \in JournalLines :
        LET parsed == _parse_timestamp_line(line) IN
        /\ Read(line)
        /\ active_interval # None
        /\ parsed.matched
        /\ OpenBranch(parsed) = "seal"
        /\ heap' = Sealed(heap, active_interval, line, parsed.time)
        /\ ~validate(heap'[active_interval])
        /\ intervals' = <<active_interval>> \o intervals
        /\ active_interval' = None
        /\ extent' = [extent EXCEPT ![active_interval].last = num + 1]
        /\ Continue
        /\ UNCHANGED <<start_tag, end_tag>>

\* active_interval, parsed, end_tag in tags, validate passes: emit
SealInterval ==
    \E line \in JournalLines :
        LET parsed == _parse_timestamp_line(line) IN
        /\ Read(line)
        /\ active_interval # None
        /\ parsed.matched
        /\ OpenBranch(parsed) = "seal"
        /\ heap' = Sealed(heap, active_interval, line, parsed.time)
        /\ ~validate(heap'[active_interval])
        /\ intervals' = Append(intervals, active_interval)
        /\ active_interval' = None
        /\ extent' = [extent EXCEPT ![active_interval].last = num + 1]
        /\ Continue
        /\ UNCHANGED <<start_tag, end_tag>>

\* the check after the loop is missing: the open interval is dropped
Unterminated_Silent ==
    /\ Exhausted
    /\ active_interval # None
    /\ pc' = "returned"
    /\ returned' = intervals
    /\ UNCHANGED <<start_tag, end_tag, num, heap, active_interval, intervals,
                   error, extent>>

\* after the loop, active_interval: raise
Unterminated ==
    /\ Exhausted
    /\ active_interval # None
    /\ Raise(UnterminatedError)
    /\ UNCHANGED <<start_tag, end_tag, heap, active_interval, intervals, extent>>

\* after the loop: return intervals
Return ==
    /\ Exhausted
    /\ active_interval = None
    /\ pc' = "returned"
    /\ returned' = intervals
    /\ UNCHANGED <<start_tag, end_tag, num, heap, active_interval, intervals,
                   error, extent>>

Next ==
    \/ SkipLine
    \/ UnmatchedEnd
    \/ OpenInterval
    \/ IgnoreStamp
    \/ AppendBody
    \/ AppendStamp
    \/ NestedStart
    \/ NegativeDuration
    \/ SealInterval
    \/ Unterminated
    \/ Return

Spec == Init /\ [][Next]_vars

\* The state of the journal scan while it is not run.
ScanIdle ==
    /\ lines = <<>>
    /\ start_tag = TagS
    /\ end_tag = TagE
    /\ num = 0
    /\ heap = <<>>
    /\ active_interval = None
    /\ intervals = <<>>
    /\ pc = "idle"
    /\ returned = NotReturned
    /\ error = NoError
    /\ extent = <<>>

-----------------------------------------------------------------------------
\* todo.py: the paragraph scan of one note file in main
\*
\* A note line is the sequence of its pieces: " " (one space), "TODO(",
\* ")", "\n" and "a" (any other text).

BlankLine == <<"\n">>
SpaceLine == <<" ", "\n">>
TextLine == <<"a", "\n">>
TodoLine == <<"TODO(", "a", ")", "\n">>
IndentedTodoLine == <<" ", " ", "TODO(", ")", "a", "\n">>
InnerTodoLine == <<"a", " ", "TODO(", "a", ")", "\n">>
UnclosedTodoLine == <<"TODO(", "a", "\n">>

NoteLines == {BlankLine, SpaceLine, TextLine, TodoLine, IndentedTodoLine,
              InnerTodoLine, UnclosedTodoLine}

\* the regular expression " *": the line without its leading spaces
RECURSIVE SkipSpaces(_)
SkipSpaces(l) ==
    IF l # <<>> /\ Head(l) = " " THEN SkipSpaces(Tail(l)) ELSE l

\* re.match(r" *TODO\(.*\)", line): anchored at the start of the line,
\* "." matches anything but a newline
_line_contains_todo(line) ==
    LET l == SkipSpaces(line) IN
    /\ l # <<>>
    /\ Head(l) = "TODO("
    /\ \E k \in 2..Len(l) :
          /\ l[k] = ")"
          /\ \A j \in 2..(k - 1) : l[j] # "\n"

_paragraph_contains_todo(ls) ==
    \E i \in 1..Len(ls) : _line_contains_todo(ls[i])

\* the meeting directory the note file is in
NoteMeetingId == "standup"

\* a second TODO line does not close the paragraph
ClosesParagraph_BlankOnly(line) == line = BlankLine

\* line == '\n' or (active_todo and _line_contains_todo(line))
ClosesParagraph(line) ==
    line = BlankLine \/ (active_todo /\ _line_contains_todo(line))

\* paragraphs.append({"lines": lines, "meeting_id": meeting_id}); the list
\* lines is not changed afterwards: the name is bound to a new list
WithParagraph(ps, ls) ==
    Append(ps, [lines |-> ls, meeting_id |-> NoteMeetingId])

InitTodo ==
    /\ ScanIdle
    /\ NotesIdle
    /\ note = <<>>
    /\ todo_lines = <<>>
    /\ paragraphs = <<>>
    /\ active_todo = FALSE
    /\ todo_pc = "scan"

\* for line in f.readlines(): the loop hands out one more line
TodoRead(line) ==
    /\ todo_pc = "scan"
    /\ Len(note) < MaxNoteLines
    /\ note' = Append(note, line)
    /\ UNCHANGED <<todo_pc, scanVars, notesVars>>

\* the if branch: keep the paragraph if it has a TODO, start a new one
CloseParagraph ==
    \E line \in NoteLines :
        /\ TodoRead(line)
        /\ ClosesParagraph(line)
        /\ paragraphs' = IF _paragraph_contains_todo(todo_lines)
                         THEN WithParagraph(paragraphs, todo_lines)
                         ELSE paragraphs
        /\ todo_lines' = IF line # BlankLine THEN <<line>> ELSE <<>>
        /\ active_todo' = IF _line_contains_todo(line) THEN TRUE ELSE FALSE

\* the else branch: the line joins the current paragraph
ExtendParagraph ==
    \E line \in NoteLines :
        /\ TodoRead(line)
        /\ ~ClosesParagraph(line)
        /\ todo_lines' = Append(todo_lines, line)
        /\ active_todo' = IF _line_contains_todo(line) THEN TRUE ELSE active_todo
        /\ UNCHANGED paragraphs

\* after the loop: maybe add the last paragraph
LastParagraph ==
    /\ todo_pc = "scan"
    /\ todo_pc' = "done"
    /\ paragraphs' = IF todo_lines # <<>> /\ _paragraph_contains_todo(todo_lines)
                     THEN WithParagraph(paragraphs, todo_lines)
                     ELSE paragraphs
    /\ UNCHANGED <<note, todo_lines, active_todo, scanVars, notesVars>>

NextTodo ==
    \/ CloseParagraph
    \/ ExtendParagraph
    \/ LastParagraph

SpecTodo == InitTodo /\ [][NextTodo]_vars

-----------------------------------------------------------------------------
\* download_meetings.py: _maybe_create_file, called any number of times on
\* a notes directory that exists. (The loop of main in download-meetings.py
\* has the same body.)
\*
\* dirs[m] tells what os.path.join(note_dir, meeting_id) is: "missing", a
\* "dir" or a regular "file". files[m][d] is Absent or the file
\* <notes_dir>/<m>/<d>.txt, a one-element sequence holding its content.

\* a note that was there before the first call
UserNote ==
    <<[date |-> 0, time |-> 0, meeting_start |-> "", description |-> <<>>]>>

MeetingStarts == {"09:00", "10:00"}
Descriptions == {<<"agenda">>, <<"agenda", "">>}

\* textwrap.indent(description, "  "): the prefix goes before every line
\* that is not empty
RECURSIVE Indent(_)
Indent(ls) ==
    IF ls = <<>> THEN <<>>
    ELSE <<IF Head(ls) = "" THEN <<"">> ELSE <<"  ", Head(ls)>>>> \o Indent(Tail(ls))

\* open(note_filename, "w") and f.write(NOTE_TEMPLATE.format(...)): the
\* file written, with the fields that differ from call to call
NoteContent(d, t, st, desc) ==
    <<[date |-> d, time |-> t, meeting_start |-> st, description |-> Indent(desc)]>>

MsgIgnoring == "Ignoring existing file: {}"
MsgCreating == "Creating file: {}"

InitNotes ==
    /\ ScanIdle
    /\ TodoIdle
    /\ dirs \in [MeetingIds -> {"missing", "dir", "file"}]
    /\ files \in [MeetingIds -> [Dates -> {Absent, UserNote}]]
    /\ \A m \in MeetingIds : \A d \in Dates :
          dirs[m] # "dir" => files[m][d] = Absent
    /\ now = 1
    /\ call = NoCall
    /\ printed = ""

\* one call of _maybe_create_file(note_dir, m, d, ...)
Called(m, d) ==
    /\ now <= MaxCalls
    /\ now' = now + 1
    /\ call' = [meeting_id |-> m, date |-> d]
    /\ UNCHANGED <<scanVars, todoVars>>

\* os.path.isdir(note_dir)
isdir(m) == dirs[m] = "dir"

\* os.path.exists(note_filename)
exists(m, d) == isdir(m) /\ files[m][d] # Absent

\* not isdir, and os.mkdir raises FileExistsError: the path is a file
MkdirFails ==
    \E m \in MeetingIds, d \in Dates :
        /\ Called(m, d)
        /\ ~isdir(m)
        /\ dirs[m] = "file"
        /\ printed' = "FileExistsError"
        /\ UNCHANGED <<dirs, files>>

\* the check of os.path.exists is missing
IgnoreExisting_Overwrite ==
    \E m \in MeetingIds, d \in Dates, st \in MeetingStarts, desc \in Descriptions :
        /\ Called(m, d)
        /\ isdir(m)
        /\ exists(m, d)
        /\ printed' = MsgCreating
        /\ files' = [files EXCEPT ![m][d] = NoteContent(d, now, st, desc)]
        /\ UNCHANGED dirs

\* the file exists: print and return
IgnoreExisting ==
    \E m \in MeetingIds, d \in Dates, st \in MeetingStarts, desc \in Descriptions :
        /\ Called(m, d)
        /\ isdir(m)
        /\ exists(m, d)
        /\ printed' = MsgIgnoring
        /\ UNCHANGED <<dirs, files>>

\* mkdir if the directory is missing, then write the note
CreateNote ==
    \E m \in MeetingIds, d \in Dates, st \in MeetingStarts, desc \in Descriptions :
        /\ Called(m, d)
        /\ isdir(m) \/ dirs[m] = "missing"
        /\ dirs' = [dirs EXCEPT ![m] = "dir"]
        /\ ~exists(m, d)
        /\ printed' = MsgCreating
        /\ files' = [files EXCEPT ![m][d] = NoteContent(d, now, st, desc)]

NextNotes ==
    \/ MkdirFails
    \/ IgnoreExisting
    \/ CreateNote

SpecNotes == InitNotes /\ [][NextNotes]_vars

-----------------------------------------------------------------------------
\* Vocabulary of the properties

\* the line is a timestamp line whose tags contain tag
HasTag(l, tag) ==
    LET p == _parse_timestamp_line(l) IN p.matched /\ Contains(p.tags, tag)

\* this step is a loop step: it reads NextLine, the line at 0-based index num
ReadsLine == pc = "scan" /\ Len(lines') = Len(lines) + 1
NextLine == lines'[Len(lines')]

\* the line the scan stopped at when it raised inside the loop
Offending == lines[num + 1]

\* which of the four failures a raised state comes from, read off the state
\* the scan stopped in
Cause ==
    IF num = Len(lines) THEN "unterminated"
    ELSE IF active_interval = None THEN "unmatched"
    ELSE IF heap[active_interval].end = None THEN "nested"
    ELSE "negative"

\* the Interval objects that were created and not appended to the result
OpenRefs == {r \in 1..Len(heap) : ~Contains(intervals, r)}

-----------------------------------------------------------------------------
\* C1: every Interval in the result list, and in the returned list, has an
\* end that is set and not before its start; an Interval whose recorded end
\* is before its start exists only in a scan that raised the
\* negative-duration error, and it is not in the result list.
C1_EndNotBeforeStart ==
    /\ \A k \in 1..Len(intervals) :
          /\ heap[intervals[k]].end # None
          /\ heap[intervals[k]].end >= heap[intervals[k]].start
    /\ pc = "returned" =>
          \A k \in 1..Len(returned) : heap[returned[k]].end >= heap[returned[k]].start
    /\ \A r \in 1..Len(heap) :
          (heap[r].end # None /\ heap[r].end < heap[r].start) =>
              /\ pc = "raised"
              /\ error.msg = MsgNegative
              /\ r = active_interval
              /\ ~Contains(intervals, r)
              /\ returned = NotReturned

\* a scan that emitted one interval and then met an end-tag line earlier
\* than the start of the interval it closes
C1_Witness ==
    /\ pc = "raised"
    /\ error.msg = MsgNegative
    /\ Len(intervals) = 1
    /\ HasTag(Offending, end_tag)
    /\ _parse_timestamp_line(Offending).time < heap[active_interval].start

\* C2: a loop step taken with no interval open that reads a timestamp line
\* whose tags contain end_tag raises the unmatched-end error, which carries
\* the 0-based index of that line plus one, and the line.
C2_UnmatchedEnd ==
    [][(ReadsLine /\ active_interval = None /\ HasTag(NextLine, end_tag)) =>
          /\ pc' = "raised"
          /\ error'.msg = MsgUnmatchedEnd
          /\ error'.num = num + 1
          /\ lines'[error'.num] = NextLine
          /\ error'.line = NextLine
          /\ returned' = NotReturned]_vars

\* the unmatched end-tag line is not the first line of the journal
C2_Witness ==
    /\ pc = "raised"
    /\ error.msg = MsgUnmatchedEnd
    /\ error.num = 3
    /\ active_interval = None
    /\ HasTag(lines[3], end_tag)

\* at most one Interval is open, and it is the active one
AtMostOneOpen ==
    /\ Cardinality(OpenRefs) <= 1
    /\ OpenRefs = IF active_interval = None THEN {} ELSE {active_interval}

\* C3: a loop step taken with an interval open that reads a timestamp line
\* whose tags contain start_tag (with or without end_tag) raises the nested
\* error and creates no Interval; at every point of every scan at most one
\* Interval is open.
C3_NestedStart ==
    /\ []AtMostOneOpen
    /\ [][(ReadsLine /\ active_interval # None /\ HasTag(NextLine, start_tag)) =>
             /\ pc' = "raised"
             /\ error'.msg = MsgNested
             /\ Len(heap') = Len(heap)
             /\ active_interval' = active_interval
             /\ intervals' = intervals]_vars

\* the second start-tag line carries the end tag as well
C3_Witness ==
    /\ pc = "raised"
    /\ error.msg = MsgNested
    /\ HasTag(Offending, start_tag)
    /\ HasTag(Offending, end_tag)
    /\ Len(heap) = 2
    /\ Len(intervals) = 1

\* C4: a scan that returns has no interval open after its last line and has
\* emitted every Interval it created; a scan whose loop is exhausted with an
\* interval open raises the unterminated error and returns nothing.
C4_Unterminated ==
    /\ pc = "returned" =>
          /\ active_interval = None
          /\ num = Len(lines)
          /\ OpenRefs = {}
    /\ (pc # "scan" /\ num = Len(lines) /\ active_interval # None) =>
          /\ pc = "raised"
          /\ error = UnterminatedError
          /\ returned = NotReturned

\* the journal ends inside its second interval
C4_Witness ==
    /\ pc = "raised"
    /\ error.msg = MsgUnterminated
    /\ num = Len(lines)
    /\ Len(intervals) = 1
    /\ active_interval = 2

\* C5: a scan that raised handed nothing to its caller, whatever it had
\* sealed before; a scan that returned raised nothing, consumed every line
\* and handed over the whole result list.
C5_AllOrNothing ==
    /\ pc = "raised" => (returned = NotReturned /\ error # NoError)
    /\ pc = "returned" =>
          /\ error = NoError
          /\ num = Len(lines)
          /\ returned = intervals
    /\ pc = "scan" => (returned = NotReturned /\ error = NoError)

\* an error after an interval was sealed
C5_Witness ==
    /\ pc = "raised"
    /\ Len(intervals) >= 1
    /\ num < Len(lines)

\* C6: the lines of every emitted Interval are the slice of the journal from
\* the start-tag line that opened it to the end-tag line that sealed it,
\* both included, in journal order.
C6_LinesAreSlice ==
    \A k \in 1..Len(intervals) :
        LET r == intervals[k] IN
        /\ 1 <= extent[r].first
        /\ extent[r].first < extent[r].last
        /\ extent[r].last <= Len(lines)
        /\ heap[r].lines = SubSeq(lines, extent[r].first, extent[r].last)
        /\ HasTag(lines[extent[r].first], start_tag)
        /\ HasTag(lines[extent[r].last], end_tag)
        /\ heap[r].start = _parse_timestamp_line(lines[extent[r].first]).time
        /\ heap[r].end = _parse_timestamp_line(lines[extent[r].last]).time

\* a returned interval that follows a skipped line and holds a line that is
\* not a timestamp line between its boundary lines
C6_Witness ==
    /\ pc = "returned"
    /\ Len(returned) = 1
    /\ extent[returned[1]].first = 2
    /\ Len(heap[returned[1]].lines) = 3
    /\ ~_parse_timestamp_line(heap[returned[1]].lines[2]).matched

\* the result list is ordered by the position of the end-tag lines, each
\* interval ending before the next one starts
EmittedInOrder ==
    \A j, k \in 1..Len(intervals) :
        j < k => extent[intervals[j]].last < extent[intervals[k]].first

\* C7: the result list is ordered by the journal position of the end-tag
\* lines, each interval's end-tag line standing before the next interval's
\* start-tag line, and no step changes the place or the fields of an
\* Interval that is in the result list.
C7_OrderedAndFrozen ==
    /\ []EmittedInOrder
    /\ [][\A k \in 1..Len(intervals) :
             /\ Len(intervals') >= k
             /\ intervals'[k] = intervals[k]
             /\ heap'[intervals[k]] = heap[intervals[k]]
             /\ extent'[intervals[k]] = extent[intervals[k]]]_vars

\* two consecutive well-formed pairs
C7_Witness ==
    /\ pc = "returned"
    /\ Len(returned) = 2
    /\ returned = <<1, 2>>
    /\ extent[1].last = 2
    /\ extent[2].first = 3

-----------------------------------------------------------------------------
\* The error kinds that section 4.2 of the specification names.
NamedKind(cause) ==
    CASE cause = "unmatched" -> "UnmatchedEndError"
      [] cause = "nested" -> "NestedIntervalError"
      [] cause = "unterminated" -> "UnterminatedIntervalError"
      [] cause = "negative" -> "NegativeDurationError"

\* C8 as stated: each failure reaches the caller as an error kind of its
\* own, and where a line is responsible (every failure inside the loop) the
\* error carries that line's 1-based number and its text.
C8_Original ==
    pc = "raised" =>
        /\ error.type = NamedKind(Cause)
        /\ Cause # "unterminated" =>
              (error.num = num + 1 /\ error.line = Offending)

\* C8 amended: all four failures reach the caller as the one kind
\* ValueError and differ only in their message text, which names the
\* failure; the unmatched-end and nested-start messages carry the 1-based
\* number and the text of the offending line; the unterminated message
\* carries neither; the negative-duration message carries no line number and
\* prints the interval instead: its duration, start, end and the lines
\* strictly between its two boundary lines.
C8_OneKindFourMessages ==
    pc = "raised" =>
        /\ error.type = "ValueError"
        /\ Cardinality({MsgUnmatchedEnd, MsgNested, MsgUnterminated, MsgNegative}) = 4
        /\ Cause = "unmatched" =>
              /\ error.msg = MsgUnmatchedEnd
              /\ error.num = num + 1
              /\ error.line = Offending
              /\ error.interval = NoIntervalStr
        /\ Cause = "nested" =>
              /\ error.msg = MsgNested
              /\ error.num = num + 1
              /\ error.line = Offending
              /\ error.interval = NoIntervalStr
        /\ Cause = "unterminated" =>
              /\ error.msg = MsgUnterminated
              /\ error.num = None
              /\ error.line = NoLine
              /\ error.interval = NoIntervalStr
        /\ Cause = "negative" =>
              /\ error.msg = MsgNegative
              /\ error.num = None
              /\ error.line = NoLine
              /\ error.interval.start = heap[active_interval].start
              /\ error.interval.end = _parse_timestamp_line(Offending).time
              /\ error.interval.hours < 0
              /\ error.interval.summary =
                    SubSeq(lines, extent[active_interval].first + 1, num)

\* a negative-duration error for an interval with a line between its
\* boundary lines
C8_Witness ==
    /\ pc = "raised"
    /\ Cause = "negative"
    /\ Len(error.interval.summary) = 1
    /\ num = 2

-----------------------------------------------------------------------------
\* a loop step that reads a timestamp line carrying both tags
ReadsBothTags ==
    ReadsLine /\ HasTag(NextLine, start_tag) /\ HasTag(NextLine, end_tag)

\* C9 as stated: with an interval open, a line carrying both tags takes the
\* end-tag branch: the step does not raise the nested error, and it seals
\* and emits the open interval unless its duration is negative.
C9_Original ==
    [][(ReadsBothTags /\ active_interval # None) =>
          /\ error'.msg # MsgNested
          /\ _parse_timestamp_line(NextLine).time >= heap[active_interval].start =>
                (pc' = "scan" /\ intervals' = Append(intervals, active_interval))]_vars

\* C9 amended: with an interval open, start_tag is checked before end_tag:
\* a line carrying both tags is appended to the open interval's lines and
\* the scan raises the nested error; the interval gets no end time and is
\* not appended to the result.
C9_StartCheckedFirst ==
    [][(ReadsBothTags /\ active_interval # None) =>
          /\ pc' = "raised"
          /\ error' = NestedError(num, NextLine)
          /\ intervals' = intervals
          /\ active_interval' = active_interval
          /\ heap'[active_interval].end = None
          /\ heap'[active_interval].lines =
                Append(heap[active_interval].lines, NextLine)]_vars

\* a line with two distinct tags, start and end, met while an interval is
\* open, at a time that would make a valid interval
C9_Witness ==
    /\ pc = "raised"
    /\ active_interval # None
    /\ num < Len(lines)
    /\ start_tag # end_tag
    /\ HasTag(Offending, start_tag)
    /\ HasTag(Offending, end_tag)
    /\ _parse_timestamp_line(Offending).time >= heap[active_interval].start

\* C10: with no interval open, end_tag is checked before start_tag: a line
\* carrying both tags (two tags, or one tag when start_tag = end_tag) raises
\* the unmatched-end error and no Interval is created.
C10_EndCheckedFirst ==
    [][(ReadsBothTags /\ active_interval = None) =>
          /\ pc' = "raised"
          /\ error' = UnmatchedEndError(num, NextLine)
          /\ heap' = heap
          /\ active_interval' = None
          /\ intervals' = intervals]_vars

\* a line with two distinct tags, start and end, met while no interval is
\* open
C10_Witness ==
    /\ pc = "raised"
    /\ active_interval = None
    /\ num < Len(lines)
    /\ start_tag # end_tag
    /\ HasTag(Offending, start_tag)
    /\ HasTag(Offending, end_tag)
    /\ heap = <<>>

-----------------------------------------------------------------------------
\* the 1-based numbers of the journal's timestamp lines that carry tag
TaggedAt(tag) == {i \in 1..Len(lines) : HasTag(lines[i], tag)}

\* the timestamp lines that carry start_tag or end_tag
Boundaries == TaggedAt(start_tag) \cup TaggedAt(end_tag)

\* the place of boundary line i among the boundary lines, counted from 1
Rank(i) == Cardinality({j \in Boundaries : j <= i})

\* C11: when a scan returns, the number of returned intervals equals the
\* number of timestamp lines carrying start_tag and the number carrying
\* end_tag, and these lines alternate, a start-only line first, then an
\* end-only line, and so on.
C11_BoundariesCounted ==
    pc = "returned" =>
        /\ Len(returned) = Cardinality(TaggedAt(start_tag))
        /\ Len(returned) = Cardinality(TaggedAt(end_tag))
        /\ \A i \in Boundaries :
              IF Rank(i) % 2 = 1
              THEN HasTag(lines[i], start_tag) /\ ~HasTag(lines[i], end_tag)
              ELSE HasTag(lines[i], end_tag) /\ ~HasTag(lines[i], start_tag)

\* a returned scan of one interval whose journal also holds a line that
\* names the end tag without being a timestamp line
C11_Witness ==
    /\ pc = "returned"
    /\ Len(returned) = 1
    /\ Len(lines) = 4
    /\ \E i \in 1..Len(lines) :
          /\ ~_parse_timestamp_line(lines[i]).matched
          /\ Contains(MapStrip(lines[i].rest), end_tag)

-----------------------------------------------------------------------------
\* the number of lines of ls that match the TODO marker
TodoCount(ls) == Cardinality({i \in 1..Len(ls) : _line_contains_todo(ls[i])})

\* the sequence holds a blank line
HasBlank(ls) == \E i \in 1..Len(ls) : ls[i] = BlankLine

\* the lines of the paragraphs, one paragraph after the other
RECURSIVE Joined(_)
Joined(ps) == IF ps = <<>> THEN <<>> ELSE Head(ps).lines \o Joined(Tail(ps))

\* ls is a run of lines of the note file that starts at the top of the file,
\* after a blank line or with a TODO line, and stops at the end of what was
\* read, before a blank line or before a TODO line
IsParagraphOfNote(ls) ==
    \E a \in 1..Len(note) : \E b \in a..Len(note) :
        /\ ls = SubSeq(note, a, b)
        /\ a = 1 \/ note[a - 1] = BlankLine \/ _line_contains_todo(note[a])
        /\ b = Len(note) \/ note[b + 1] = BlankLine \/ _line_contains_todo(note[b + 1])

\* C12: every paragraph in the paragraph list holds exactly one line that
\* matches the TODO marker and no blank line, and is a run of lines of the
\* file bounded by blank lines and TODO lines; the paragraph being collected
\* holds at most one TODO line, and one exactly when a TODO is active; every
\* TODO line read is in a paragraph of its own, so the list has as many
\* paragraphs as the file has TODO lines; in a file without blank lines
\* nothing is discarded, so a second TODO line heads the next paragraph.
C12_OneTodoPerParagraph ==
    /\ \A k \in 1..Len(paragraphs) :
          /\ TodoCount(paragraphs[k].lines) = 1
          /\ ~HasBlank(paragraphs[k].lines)
    /\ todo_pc = "scan" =>
          /\ TodoCount(todo_lines) <= 1
          /\ active_todo <=> (TodoCount(todo_lines) = 1)
          /\ ~HasBlank(todo_lines)
          /\ Len(paragraphs) + TodoCount(todo_lines) = TodoCount(note)
    /\ todo_pc = "done" => Len(paragraphs) = TodoCount(note)
    /\ \A k \in 1..Len(paragraphs) : IsParagraphOfNote(paragraphs[k].lines)
    /\ (todo_pc = "scan" /\ ~HasBlank(note)) =>
          Joined(paragraphs) \o todo_lines = note
    /\ (todo_pc = "done" /\ ~HasBlank(note) /\ TodoCount(note) >= 1) =>
          Joined(paragraphs) = note

\* two TODO lines in a row, with no blank line in the file: the second one
\* closed the first paragraph and heads the second
C12_Witness ==
    /\ todo_pc = "done"
    /\ Len(paragraphs) = 2
    /\ ~HasBlank(note)
    /\ Len(paragraphs[1].lines) = 2
    /\ _line_contains_todo(paragraphs[2].lines[1])
    /\ Len(paragraphs[2].lines) = 2

-----------------------------------------------------------------------------
\* this step is a call of _maybe_create_file for meeting m and date d
CallFor(m, d) == now' # now /\ call' = [meeting_id |-> m, date |-> d]

\* every note the calls wrote carries its own date and the time of an
\* earlier call
NotesAreFirstWrites ==
    \A m \in MeetingIds : \A d \in Dates :
        files[m][d] \notin {Absent, UserNote} =>
            /\ files[m][d][1].date = d
            /\ files[m][d][1].time < now
            /\ dirs[m] = "dir"

\* C13: no call changes a note that exists; a note changes only in a call
\* for its meeting and date that finds it absent, and then holds what that
\* call wrote; a call for a note that exists changes neither files nor
\* directories, whatever its other arguments are.
C13_NeverOverwrites ==
    /\ []NotesAreFirstWrites
    /\ [][\A m \in MeetingIds : \A d \in Dates :
             /\ files[m][d] # Absent => files'[m][d] = files[m][d]
             /\ files'[m][d] # files[m][d] =>
                   /\ CallFor(m, d)
                   /\ printed' = MsgCreating
                   /\ files'[m][d][1].time = now
                   /\ files'[m][d][1].date = d
             /\ (CallFor(m, d) /\ files[m][d] # Absent) =>
                   /\ files' = files
                   /\ dirs' = dirs
                   /\ printed' = MsgIgnoring]_vars

\* the latest call was for a note that an earlier call had created, and
\* another call lies between the two
C13_Witness ==
    /\ printed = MsgIgnoring
    /\ files[call.meeting_id][call.date] # UserNote
    /\ files[call.meeting_id][call.date][1].time = 1
    /\ now = 4

====
